---- MODULE Spec2Model ----
(***************************************************************************)
(* PortfolioAnalysisAgent.HandlePortfolioAnalysisRequest.run               *)
(* (src/agents/portfolio_analysis_agent.py).                               *)
(*                                                                         *)
(* One cyclic behaviour: receive a message, decode its JSON body, resolve  *)
(* every holding with one quote lookup each, and send one reply envelope.  *)
(* The coroutine is cut at its awaits (receive, client.get, send); the     *)
(* locals of run are the variables below and are gone when run returns.    *)
(*                                                                         *)
(* Python dicts are functions whose DOMAIN is the set of keys present;     *)
(* strings that the code parses (allocation, price) are sequences of       *)
(* one-character strings.  Money is in whole currency units, share counts  *)
(* in hundredths.                                                          *)
(***************************************************************************)
EXTENDS Integers, Sequences, FiniteSets, TLC

VARIABLES
    pc,                 \* position of the coroutine: poll, handle, loop, lookup, reply, return
    clock,              \* logical UTC time, advanced by every receive
    msg,                \* run: msg (line 57)
    intent,             \* line 63
    portfolio_items,    \* line 64
    task_id,            \* line 65
    parent,             \* line 66
    reply_to,           \* line 67
    result_data,        \* line 69
    status,             \* line 70
    error_info,         \* line 71
    total_value,        \* line 72
    detailed_holdings,  \* line 73
    it,                 \* position of the for-loop iterator (line 78)
    symbol,             \* line 79
    capital_allocated,  \* line 92
    allocation_percent, \* line 91
    open,               \* httpx.AsyncClient instances currently open (line 101)
    request,            \* body of the message this invocation received
    sent,               \* messages handed to self.send during this invocation
    lookups,            \* quote lookups issued during this invocation, with outcome
    validated,          \* number of holdings that reached the check of line 82
    unexpected_logged,  \* "Unexpected error" entries this invocation logged (line 175)
    malformed_logged,   \* "Malformed JSON" entries written to the log (line 173)
    ref                 \* an earlier reply kept for comparison with a replay

locals == <<msg, intent, portfolio_items, task_id, parent, reply_to, result_data,
            status, error_info, total_value, detailed_holdings, it, symbol,
            capital_allocated, allocation_percent>>

ghost == <<request, sent, lookups, validated, unexpected_logged>>

vars == <<pc, clock, locals, open, ghost, malformed_logged, ref>>

----------------------------------------------------------------------------
(* Bounds of the model *)

MaxHoldings == 2        \* longest holdings list of a request
MaxMsgs == 2            \* messages received in one behaviour
MaxReplayHoldings == 1
MaxAllocHoldings == 3  \* longest holdings list in the replay universe
MaxReplayMsgs == 3      \* messages received in one replay behaviour

----------------------------------------------------------------------------
(* Python values *)

None == [py |-> "None"]         \* None where the other values are dicts
NoneStr == "None"               \* None where the other values are strings
NoneList == <<[py |-> "None"]>> \* None where the other values are lists
Unbound == "unbound"            \* a local that has no value
\* the same where the values the local takes are dicts, numbers and lists
UnboundDict == [py |-> "unbound"]
UnboundNum == -1
UnboundList == <<[py |-> "unbound"]>>

Has(d, k) == k \in DOMAIN d

\* dict.get(k) for string-valued keys
Get(d, k) == IF Has(d, k) THEN d[k] ELSE NoneStr

\* truthiness of item.get(k): absent (None) and the empty string are both falsy
TruthyStr(d, k) == Has(d, k) /\ d[k] # ""
TruthyChars(d, k) == Has(d, k) /\ d[k] # <<>>

Digits == {"0", "1", "2", "5"}

DigitVal(c) == CASE c = "0" -> 0 [] c = "1" -> 1 [] c = "2" -> 2 [] c = "5" -> 5

RECURSIVE StripLeft(_, _)
StripLeft(s, c) == IF s # <<>> /\ Head(s) = c THEN StripLeft(Tail(s), c) ELSE s

RECURSIVE StripRight(_, _)
StripRight(s, c) ==
    IF s # <<>> /\ s[Len(s)] = c THEN StripRight(SubSeq(s, 1, Len(s) - 1), c) ELSE s

\* str.strip(c): remove every leading and trailing c
Strip(s, c) == StripRight(StripLeft(s, c), c)

RECURSIVE DigitsValue(_)
DigitsValue(s) ==
    IF s = <<>> THEN 0 ELSE 10 * DigitsValue(SubSeq(s, 1, Len(s) - 1)) + DigitVal(s[Len(s)])

\* float(s) on the strings of the model: a non-empty run of digits converts,
\* anything else raises ValueError
FloatOk(s) == s # <<>> /\ \A i \in 1..Len(s) : s[i] \in Digits
Float(s) == DigitsValue(s)

\* round(a / b, 2), in hundredths, for a >= 0, b > 0
\* (no quotient of the model falls on a tie, where float rounding would matter)
Round2Div(a, b) == (2 * 100 * a + b) \div (2 * b)

----------------------------------------------------------------------------
(* Inbound messages *)

total_capital == 100000

Requesters == {1, 2}
TaskIdOf(r) == IF r = 1 THEN "task-1" ELSE "task-2"
ParentOf(r) == IF r = 1 THEN "parent-1" ELSE "parent-2"
ReplyToOf(r) == IF r = 1 THEN "planner1@xmpp" ELSE "planner2@xmpp"

Symbols == {"", "AAPL", "MSFT"}
AllocStrs == {<<>>, <<"5", "0", "%">>, <<"%">>}

\* a holding is a dict with keys among symbol and allocation
Items ==
    [symbol : Symbols, allocation : AllocStrs]
    \cup {[symbol |-> "AAPL"], [allocation |-> <<"5", "0", "%">>]}

SeqsUpTo(S, n) == UNION {[1..k -> S] : k \in 0..n}

Intents == {"analyze_portfolio", "unknown_intent"}

EnvelopeKeys == {"intent", "parameters", "task_id", "parent_task", "reply_to"}

\* the request of requester r, as the dict json.loads returns
FullEnvelope(i, h, r) ==
    [intent |-> i, parameters |-> [holdings |-> h], task_id |-> TaskIdOf(r),
     parent_task |-> ParentOf(r), reply_to |-> ReplyToOf(r)]

Restrict(d, keys) == [k \in keys |-> d[k]]

\* the same dict with one key dropped
Without(d, k) == Restrict(d, DOMAIN d \ {k})

NoHoldings(d) == [d EXCEPT !.parameters = [other |-> "x"]]

Envelopes(H) ==
    LET full == {FullEnvelope(i, h, r) : i \in Intents, h \in H, r \in Requesters}
    IN  full
        \cup {Without(d, k) : d \in full, k \in EnvelopeKeys}
        \cup {NoHoldings(d) : d \in full}

\* a message body: text that json.loads rejects, a JSON value that is no
\* object, or a JSON object
Bodies(H) ==
    {[json |-> FALSE, text |-> "not json"]}
    \cup {[json |-> TRUE, object |-> FALSE, value |-> 7]}
    \cup {[json |-> TRUE, object |-> TRUE, value |-> d] : d \in Envelopes(H)}

Messages(H) == [sender : {"planner@xmpp"}, body : Bodies(H)]

Requests == Messages(SeqsUpTo(Items, MaxHoldings))

NoMsg == [sender |-> "nobody", body |-> [json |-> FALSE, text |-> ""]]

\* json.loads: the decoded value, or JSONDecodeError
JsonDecodes(body) == body.json
JsonLoads(body) == body.value
IsDict(body) == body.object

\* json.dumps of a dict
JsonDumps(d) == [json |-> TRUE, object |-> TRUE, value |-> d]

----------------------------------------------------------------------------
(* The quote service *)

EmptyDict == <<>>

PriceStrs == {<<"1", "0", "0">>, <<"2", "0", "0">>, <<"0">>, <<"%">>}

\* the JSON documents the service answers with
ApiData ==
    {("Global Quote" :> ("05. price" :> p)) : p \in PriceStrs}
    \cup {("Global Quote" :> EmptyDict), EmptyDict}

\* what one client.get ends in: a timeout, a non-success status
\* (raise_for_status), a body response.json() rejects, or a document
Outcomes ==
    {[kind |-> "timeout"], [kind |-> "status"], [kind |-> "malformed"]}
    \cup {[kind |-> "ok", api_data |-> a] : a \in ApiData}

\* api_data.get("Global Quote", {}).get("05. price") is a non-empty string
HasPrice(api_data) ==
    /\ Has(api_data, "Global Quote")
    /\ TruthyChars(api_data["Global Quote"], "05. price")

price_str(api_data) == api_data["Global Quote"]["05. price"]

----------------------------------------------------------------------------
(* The frame of run *)

\* no invocation of run is active: its locals do not exist
NoFrame ==
    /\ msg' = NoMsg
    /\ intent' = Unbound
    /\ portfolio_items' = UnboundList
    /\ task_id' = Unbound
    /\ parent' = Unbound
    /\ reply_to' = Unbound
    /\ result_data' = UnboundDict
    /\ status' = Unbound
    /\ error_info' = UnboundDict
    /\ total_value' = UnboundNum
    /\ detailed_holdings' = UnboundList
    /\ it' = UnboundNum
    /\ symbol' = Unbound
    /\ capital_allocated' = UnboundNum
    /\ allocation_percent' = UnboundNum

\* the try block is left (the reply is sent, or an except clause logged the
\* error) and run is about to return
Leave == pc' = "return"

NoRef == [request |-> "none"]
NoRequest == [json |-> FALSE, text |-> ""]

Init ==
    /\ pc = "poll"
    /\ clock = 0
    /\ msg = NoMsg
    /\ intent = Unbound
    /\ portfolio_items = UnboundList
    /\ task_id = Unbound
    /\ parent = Unbound
    /\ reply_to = Unbound
    /\ result_data = UnboundDict
    /\ status = Unbound
    /\ error_info = UnboundDict
    /\ total_value = UnboundNum
    /\ detailed_holdings = UnboundList
    /\ it = UnboundNum
    /\ symbol = Unbound
    /\ capital_allocated = UnboundNum
    /\ allocation_percent = UnboundNum
    /\ open = 0
    /\ request = NoRequest
    /\ sent = <<>>
    /\ lookups = <<>>
    /\ validated = 0
    /\ unexpected_logged = 0
    /\ malformed_logged = 0
    /\ ref = NoRef

\* a new invocation of run starts with nothing sent and nothing looked up
NewInvocation(body) ==
    /\ request' = body
    /\ sent' = <<>>
    /\ lookups' = <<>>
    /\ validated' = 0
    /\ unexpected_logged' = 0

----------------------------------------------------------------------------
(* msg = await self.receive(timeout=10) *)

\* a message is taken while the GET of the message before is awaited
ReceiveMsgAnytime(universe, cap) ==
    /\ pc \in {"poll", "lookup"}
    /\ clock < cap
    /\ \E m \in universe :
        /\ msg' = m
        /\ NewInvocation(m.body)
    /\ clock' = clock + 1
    /\ pc' = "handle"
    /\ UNCHANGED <<intent, portfolio_items, task_id, parent, reply_to, result_data,
                   status, error_info, total_value, detailed_holdings, it, symbol,
                   capital_allocated, allocation_percent, open, malformed_logged, ref>>

\* a message that matches the template arrives within the timeout
ReceiveMsg(universe, cap) ==
    /\ pc = "poll"
    /\ clock < cap
    /\ \E m \in universe :
        /\ msg' = m
        /\ NewInvocation(m.body)
    /\ clock' = clock + 1
    /\ pc' = "handle"
    /\ UNCHANGED <<intent, portfolio_items, task_id, parent, reply_to, result_data,
                   status, error_info, total_value, detailed_holdings, it, symbol,
                   capital_allocated, allocation_percent, open, malformed_logged, ref>>

\* an idle timeout is taken for a failure and the behaviour stops
ReceiveTimeoutStops(cap) ==
    /\ pc = "poll"
    /\ clock < cap
    /\ clock' = clock + 1
    /\ pc' = "killed"
    /\ UNCHANGED <<locals, open, ghost, malformed_logged, ref>>

\* nothing arrives within the timeout: msg is None and `if msg` fails
ReceiveTimeout(cap) ==
    /\ pc = "poll"
    /\ clock < cap
    /\ clock' = clock + 1
    /\ Leave
    /\ UNCHANGED <<locals, open, ghost, malformed_logged, ref>>

\* run returns: its locals are gone, and the cyclic behaviour calls run again
Return ==
    /\ pc = "return"
    /\ pc' = "poll"
    /\ NoFrame
    /\ NewInvocation(NoRequest)
    /\ UNCHANGED <<clock, open, malformed_logged, ref>>

----------------------------------------------------------------------------
(* Decoding and field extraction, lines 59-75 and 141-146 *)

data == JsonLoads(msg.body)

\* lines 63-67 raise nothing: data is a dict and every subscripted key is there
Extractable(body) ==
    /\ IsDict(body)
    /\ Has(JsonLoads(body), "parameters")
    /\ Has(JsonLoads(body), "task_id")
    /\ Has(JsonLoads(body), "parent_task")
    /\ Has(JsonLoads(body), "reply_to")

\* data["parameters"].get("holdings") is a list (and not None)
HoldingsGiven(body) == Has(JsonLoads(body).parameters, "holdings")

\* a comparison that takes every intent for the recognized one
IntentRecognizedAny(i) == TRUE

\* line 75
IntentRecognized(i) == i = "analyze_portfolio"

\* the accumulators start from what the kept reply of an earlier request held
LeakyLocals ==
    [result_data |-> None, status |-> "success", error_info |-> None,
     total_value |->
        IF ref # NoRef /\ Has(ref.envelope, "result")
        THEN ref.envelope.result.portfolio_summary.total_estimated_value ELSE 0,
     detailed_holdings |->
        IF ref # NoRef /\ Has(ref.envelope, "result")
        THEN ref.envelope.result.holdings_details ELSE <<>>]

\* lines 69-73
FreshLocals ==
    [result_data |-> None, status |-> "success", error_info |-> None,
     total_value |-> 0, detailed_holdings |-> <<>>]

\* lines 63-67
Extract ==
    /\ intent' = Get(data, "intent")
    /\ portfolio_items' =
            IF HoldingsGiven(msg.body) THEN data.parameters.holdings ELSE NoneList
    /\ task_id' = data.task_id
    /\ parent' = data.parent_task
    /\ reply_to' = data.reply_to

\* JSONDecodeError is not caught: it leaves run and ends the behaviour
DropMalformedPropagates ==
    /\ pc = "handle"
    /\ ~JsonDecodes(msg.body)
    /\ pc' = "killed"
    /\ UNCHANGED <<clock, locals, open, ghost, malformed_logged, ref>>

\* line 172: json.loads raised JSONDecodeError; it is logged and run returns
DropMalformed ==
    /\ pc = "handle"
    /\ ~JsonDecodes(msg.body)
    /\ malformed_logged' = malformed_logged + 1
    /\ Leave
    /\ UNCHANGED <<clock, locals, open, ghost, ref>>

\* the exception is not caught: it leaves run and ends the behaviour
DropUnexpectedPropagates ==
    /\ pc = "handle"
    /\ JsonDecodes(msg.body)
    /\ \/ ~Extractable(msg.body)
       \/ /\ Extractable(msg.body)
          /\ IntentRecognized(Get(data, "intent"))
          /\ ~HoldingsGiven(msg.body)
    /\ pc' = "killed"
    /\ UNCHANGED <<clock, locals, open, ghost, malformed_logged, ref>>

\* line 174: an exception other than JSONDecodeError left the try block before
\* the reply was built (AttributeError on a non-dict, KeyError on a missing
\* key, TypeError on iterating None); it is logged and run returns
DropUnexpected ==
    /\ pc = "handle"
    /\ JsonDecodes(msg.body)
    /\ \/ ~Extractable(msg.body)
       \/ /\ Extractable(msg.body)
          /\ IntentRecognized(Get(data, "intent"))
          /\ ~HoldingsGiven(msg.body)
    /\ unexpected_logged' = unexpected_logged + 1
    /\ Leave
    /\ UNCHANGED <<clock, locals, open, request, sent, lookups, validated,
                   malformed_logged, ref>>

\* lines 141-146: the else branch of `if intent == "analyze_portfolio"`
RejectIntent ==
    /\ pc = "handle"
    /\ JsonDecodes(msg.body)
    /\ Extractable(msg.body)
    /\ ~IntentRecognized(Get(data, "intent"))
    /\ Extract
    /\ result_data' = FreshLocals.result_data
    /\ total_value' = FreshLocals.total_value
    /\ detailed_holdings' = FreshLocals.detailed_holdings
    /\ status' = "failure"
    /\ error_info' = [code |-> "UNEXPECTED_INTENT",
                      message |-> <<"Unexpected intent: ", Get(data, "intent")>>]
    /\ pc' = "reply"
    /\ UNCHANGED <<clock, msg, it, symbol, capital_allocated, allocation_percent,
                   open, ghost, malformed_logged, ref>>

\* lines 75-78: the for loop over portfolio_items starts
BeginAnalyze ==
    /\ pc = "handle"
    /\ JsonDecodes(msg.body)
    /\ Extractable(msg.body)
    /\ IntentRecognized(Get(data, "intent"))
    /\ HoldingsGiven(msg.body)
    /\ Extract
    /\ result_data' = FreshLocals.result_data
    /\ status' = FreshLocals.status
    /\ error_info' = FreshLocals.error_info
    /\ total_value' = FreshLocals.total_value
    /\ detailed_holdings' = FreshLocals.detailed_holdings
    /\ it' = 1
    /\ pc' = "loop"
    /\ UNCHANGED <<clock, msg, symbol, capital_allocated, allocation_percent,
                   open, ghost, malformed_logged, ref>>

----------------------------------------------------------------------------
(* The loop over the holdings, lines 78-138 *)

item == portfolio_items[it]

\* line 82, negated
ItemValid(i) == TruthyStr(i, "symbol") /\ TruthyChars(i, "allocation")

\* line 91
AllocationParses(i) == FloatOk(Strip(i.allocation, "%"))
AllocationPercent(i) == Float(Strip(i.allocation, "%"))

\* the integer quotient is taken before the product
CapitalAllocatedDivFirst(percent) == (percent \div 100) * total_capital

\* the percentage is taken of what the earlier holdings left over
CapitalAllocatedOfRemaining(percent) == (percent * (total_capital - total_value)) \div 100

\* line 92
CapitalAllocated(percent) == (percent * total_capital) \div 100

\* lines 84-87
InvalidItemError(i) ==
    [code |-> "INVALID_PORTFOLIO_ITEM", message |-> <<"Invalid portfolio item: ", i>>]

\* the message names the first holding instead of the failing one
FetchErrorFirstSymbol(sym) ==
    [code |-> "API_FETCH_ERROR",
     message |-> <<"Could not fetch data for symbol: ", portfolio_items[1].symbol>>]

\* lines 124-127
FetchError(sym) ==
    [code |-> "API_FETCH_ERROR", message |-> <<"Could not fetch data for symbol: ", sym>>]

\* lines 131-138
Summary(total, details) ==
    [portfolio_summary |->
        [total_estimated_value |-> total, base_capital |-> total_capital,
         num_holdings |-> Len(details)],
     holdings_details |-> details]

\* lines 130-138: the iterator is exhausted without a break
LoopEnd ==
    /\ pc = "loop"
    /\ it > Len(portfolio_items)
    /\ result_data' =
            IF status = "success" THEN Summary(total_value, detailed_holdings)
            ELSE result_data
    /\ pc' = "reply"
    /\ UNCHANGED <<clock, msg, intent, portfolio_items, task_id, parent, reply_to,
                   status, error_info, total_value, detailed_holdings, it, symbol,
                   capital_allocated, allocation_percent, open, ghost, malformed_logged, ref>>

\* the error is recorded but the loop goes on to the next item
ItemInvalidContinues ==
    /\ pc = "loop"
    /\ it <= Len(portfolio_items)
    /\ ~ItemValid(item)
    /\ symbol' = Get(item, "symbol")
    /\ status' = "failure"
    /\ error_info' = InvalidItemError(item)
    /\ validated' = validated + 1
    /\ it' = it + 1
    /\ pc' = "loop"
    /\ UNCHANGED <<clock, msg, intent, portfolio_items, task_id, parent, reply_to,
                   result_data, total_value, detailed_holdings,
                   capital_allocated, allocation_percent, open, request, sent,
                   lookups, unexpected_logged, malformed_logged, ref>>

\* lines 79-88: the item fails the check of line 82 and the loop breaks
ItemInvalid ==
    /\ pc = "loop"
    /\ it <= Len(portfolio_items)
    /\ ~ItemValid(item)
    /\ symbol' = Get(item, "symbol")
    /\ status' = "failure"
    /\ error_info' = InvalidItemError(item)
    /\ validated' = validated + 1
    /\ pc' = "reply"
    /\ UNCHANGED <<clock, msg, intent, portfolio_items, task_id, parent, reply_to,
                   result_data, total_value, detailed_holdings, it,
                   capital_allocated, allocation_percent, open, request, sent,
                   lookups, unexpected_logged, malformed_logged, ref>>

\* the holding is reported as an invalid item
ItemUnparsableInvalid ==
    /\ pc = "loop"
    /\ it <= Len(portfolio_items)
    /\ ItemValid(item)
    /\ ~AllocationParses(item)
    /\ symbol' = item.symbol
    /\ status' = "failure"
    /\ error_info' = InvalidItemError(item)
    /\ validated' = validated + 1
    /\ pc' = "reply"
    /\ UNCHANGED <<clock, msg, intent, portfolio_items, task_id, parent, reply_to,
                   result_data, total_value, detailed_holdings, it,
                   capital_allocated, allocation_percent, open, request, sent,
                   lookups, unexpected_logged, malformed_logged, ref>>

\* lines 90-91 and 121-128: float() raises ValueError inside the try
ItemUnparsable ==
    /\ pc = "loop"
    /\ it <= Len(portfolio_items)
    /\ ItemValid(item)
    /\ ~AllocationParses(item)
    /\ symbol' = item.symbol
    /\ status' = "failure"
    /\ error_info' = FetchError(item.symbol)
    /\ validated' = validated + 1
    /\ pc' = "reply"
    /\ UNCHANGED <<clock, msg, intent, portfolio_items, task_id, parent, reply_to,
                   result_data, total_value, detailed_holdings, it,
                   capital_allocated, allocation_percent, open, request, sent,
                   lookups, unexpected_logged, malformed_logged, ref>>

Pending == [kind |-> "pending"]

\* lines 90-102: a client is opened and the GET is awaited
IssueLookup ==
    /\ pc = "loop"
    /\ it <= Len(portfolio_items)
    /\ ItemValid(item)
    /\ AllocationParses(item)
    /\ symbol' = item.symbol
    /\ allocation_percent' = AllocationPercent(item)
    /\ capital_allocated' = CapitalAllocated(AllocationPercent(item))
    /\ validated' = validated + 1
    /\ open' = open + 1
    /\ lookups' = Append(lookups, [pos |-> it, symbol |-> item.symbol, outcome |-> Pending])
    /\ pc' = "lookup"
    /\ UNCHANGED <<clock, msg, intent, portfolio_items, task_id, parent, reply_to,
                   result_data, status, error_info, total_value, detailed_holdings,
                   it, request, sent, unexpected_logged, malformed_logged, ref>>

\* line 107
CurrentPrice(api_data) == IF HasPrice(api_data) THEN Float(price_str(api_data)) ELSE 0

\* lines 102-108 raise: the GET timed out, raise_for_status or response.json()
\* raised, float(price_str) raised ValueError, or the division of line 108
\* raised ZeroDivisionError
LookupRaises(o) ==
    IF o.kind # "ok" THEN TRUE
    ELSE IF HasPrice(o.api_data) /\ ~FloatOk(price_str(o.api_data)) THEN TRUE
    ELSE CurrentPrice(o.api_data) = 0

\* lines 110-116
ResolvedHolding(sym, percent, capital, price) ==
    [symbol |-> sym, allocation_percent |-> percent, capital_allocated |-> capital,
     estimated_shares |-> Round2Div(capital, price), current_price |-> price]

Resolve(k, o) == [lookups EXCEPT ![k].outcome = o]

\* the resolved holding is put in front of the earlier ones
LookupDonePrepends ==
    /\ pc = "lookup"
    /\ \E o \in Outcomes :
        /\ ~LookupRaises(o)
        /\ lookups' = Resolve(Len(lookups), o)
        /\ detailed_holdings' =
                <<ResolvedHolding(symbol, allocation_percent, capital_allocated,
                                  CurrentPrice(o.api_data))>> \o detailed_holdings
    /\ total_value' = total_value + capital_allocated
    /\ open' = open - 1
    /\ it' = it + 1
    /\ pc' = "loop"
    /\ UNCHANGED <<clock, msg, intent, portfolio_items, task_id, parent, reply_to,
                   result_data, status, error_info, symbol, capital_allocated,
                   allocation_percent, request, sent, validated, unexpected_logged, malformed_logged, ref>>

\* lines 102-117: the GET returned and the holding is resolved
LookupDone ==
    /\ pc = "lookup"
    /\ \E o \in Outcomes :
        /\ ~LookupRaises(o)
        /\ lookups' = Resolve(Len(lookups), o)
        /\ detailed_holdings' =
                Append(detailed_holdings,
                       ResolvedHolding(symbol, allocation_percent, capital_allocated,
                                       CurrentPrice(o.api_data)))
    /\ total_value' = total_value + capital_allocated
    /\ open' = open - 1
    /\ it' = it + 1
    /\ pc' = "loop"
    /\ UNCHANGED <<clock, msg, intent, portfolio_items, task_id, parent, reply_to,
                   result_data, status, error_info, symbol, capital_allocated,
                   allocation_percent, request, sent, validated, unexpected_logged, malformed_logged, ref>>

\* the failing holding is skipped and the loop goes on
LookupFailedSkips ==
    /\ pc = "lookup"
    /\ \E o \in Outcomes :
        /\ LookupRaises(o)
        /\ lookups' = Resolve(Len(lookups), o)
    /\ open' = open - 1
    /\ it' = it + 1
    /\ pc' = "loop"
    /\ UNCHANGED <<clock, msg, intent, portfolio_items, task_id, parent, reply_to,
                   result_data, status, error_info, total_value, detailed_holdings,
                   symbol, capital_allocated, allocation_percent, request, sent,
                   validated, unexpected_logged, malformed_logged, ref>>

\* the failed lookup is issued again
LookupFailedRetries ==
    /\ pc = "lookup"
    /\ \E o \in Outcomes :
        /\ LookupRaises(o)
        /\ lookups' = Resolve(Len(lookups), o)
    /\ open' = open - 1
    /\ pc' = "loop"
    /\ UNCHANGED <<clock, msg, intent, portfolio_items, task_id, parent, reply_to,
                   result_data, status, error_info, total_value, detailed_holdings,
                   it, symbol, capital_allocated, allocation_percent, request, sent,
                   validated, unexpected_logged, malformed_logged, ref>>

\* the client of the failed lookup is left open
LookupFailedLeaks ==
    /\ pc = "lookup"
    /\ \E o \in Outcomes :
        /\ LookupRaises(o)
        /\ lookups' = Resolve(Len(lookups), o)
    /\ status' = "failure"
    /\ error_info' = FetchError(symbol)
    /\ pc' = "reply"
    /\ UNCHANGED <<clock, msg, intent, portfolio_items, task_id, parent, reply_to,
                   result_data, total_value, detailed_holdings, it, symbol,
                   capital_allocated, allocation_percent, open, request, sent,
                   validated, unexpected_logged, malformed_logged, ref>>

\* lines 102-108 and 121-128: something raised inside the try; the client is
\* closed by its context manager and the loop breaks
LookupFailed ==
    /\ pc = "lookup"
    /\ \E o \in Outcomes :
        /\ LookupRaises(o)
        /\ lookups' = Resolve(Len(lookups), o)
    /\ status' = "failure"
    /\ error_info' = FetchError(symbol)
    /\ open' = open - 1
    /\ pc' = "reply"
    /\ UNCHANGED <<clock, msg, intent, portfolio_items, task_id, parent, reply_to,
                   result_data, total_value, detailed_holdings, it, symbol,
                   capital_allocated, allocation_percent, request, sent, validated,
                   unexpected_logged, malformed_logged, ref>>

----------------------------------------------------------------------------
(* The reply, lines 148-170 *)

\* result is set whatever the status
reply_mcp_always_result ==
    [protocol |-> "finance_mcp", version |-> "1.0", type |-> "response",
     task_id |-> task_id, parent_task |-> parent, intent |-> intent,
     status |-> status, timestamp |-> clock]
    @@ ("result" :> result_data)
    @@ (IF status = "success" THEN "result" :> result_data ELSE "error" :> error_info)

\* lines 148-162
reply_mcp ==
    [protocol |-> "finance_mcp", version |-> "1.0", type |-> "response",
     task_id |-> task_id, parent_task |-> parent, intent |-> intent,
     status |-> status, timestamp |-> clock]
    @@ (IF status = "success" THEN "result" :> result_data ELSE "error" :> error_info)

\* lines 192-194: the template the behaviour is registered with
Template == [performative |-> "request", ontology |-> "finance-task"]

\* every reply is tagged inform
ReplyMessageAlwaysInform ==
    [to |-> reply_to,
     performative |-> "inform",
     ontology |-> "finance-task",
     body |-> JsonDumps(reply_mcp)]

\* the reply goes back to the sender of the message
ReplyMessageToSender ==
    [to |-> msg.sender,
     performative |-> IF status = "success" THEN "inform" ELSE "failure",
     ontology |-> "finance-task",
     body |-> JsonDumps(reply_mcp)]

\* lines 164-167
ReplyMessage ==
    [to |-> reply_to,
     performative |-> IF status = "success" THEN "inform" ELSE "failure",
     ontology |-> "finance-task",
     body |-> JsonDumps(reply_mcp)]

\* lines 148-170: the envelope is built and sent, and run returns.  With keep,
\* the reply is remembered for comparison with a later replay.
Reply(keep) ==
    /\ pc = "reply"
    /\ sent' = Append(sent, ReplyMessage)
    /\ ref' = IF keep /\ ref = NoRef
              THEN [request |-> request, lookups |-> lookups, envelope |-> reply_mcp]
              ELSE ref
    /\ Leave
    /\ UNCHANGED <<clock, locals, open, request, lookups, validated, unexpected_logged, malformed_logged>>

----------------------------------------------------------------------------
(* Specifications *)

Next ==
    \/ ReceiveMsg(Requests, MaxMsgs)
    \/ ReceiveTimeout(MaxMsgs)
    \/ DropMalformed
    \/ DropUnexpected
    \/ RejectIntent
    \/ BeginAnalyze
    \/ LoopEnd
    \/ ItemInvalid
    \/ ItemUnparsable
    \/ IssueLookup
    \/ LookupDone
    \/ LookupFailed
    \/ Reply(FALSE)
    \/ Return

Spec == Init /\ [][Next]_vars

\* The replay universe: few enough requests that a reply of one invocation
\* can be kept and compared with the replies of all later ones.
ReplayItems ==
    {[symbol |-> "AAPL", allocation |-> <<"5", "0", "%">>],
     [symbol |-> "MSFT", allocation |-> <<>>],
     [symbol |-> "MSFT", allocation |-> <<"%">>]}

ReplayBodies ==
    {[json |-> FALSE, text |-> "not json"],
     JsonDumps(Without(FullEnvelope("analyze_portfolio", <<>>, 1), "task_id"))}
    \cup {JsonDumps(FullEnvelope(i, h, r)) :
            i \in Intents, h \in SeqsUpTo(ReplayItems, MaxReplayHoldings),
            r \in Requesters}

ReplayRequests == [sender : {"planner@xmpp"}, body : ReplayBodies]

NextReplay ==
    \/ ReceiveMsg(ReplayRequests, MaxReplayMsgs)
    \/ DropMalformed
    \/ DropUnexpected
    \/ RejectIntent
    \/ BeginAnalyze
    \/ LoopEnd
    \/ ItemInvalid
    \/ ItemUnparsable
    \/ IssueLookup
    \/ LookupDone
    \/ LookupFailed
    \/ Reply(TRUE)
    \/ Reply(FALSE)
    \/ Return

SpecReplay == Init /\ [][NextReplay]_vars

\* The allocation universe: holdings of 50% and of 25%, so that portfolios of
\* two, three and four holdings add up to 100%, in every order.
AllocItems ==
    {[symbol |-> "AAPL", allocation |-> <<"5", "0", "%">>],
     [symbol |-> "MSFT", allocation |-> <<"2", "5", "%">>],
     [symbol |-> "MSFT", allocation |-> <<>>],
     [symbol |-> "MSFT", allocation |-> <<"%">>]}

AllocBodies ==
    {[json |-> FALSE, text |-> "not json"],
     JsonDumps(Without(FullEnvelope("analyze_portfolio", <<>>, 1), "task_id")),
     JsonDumps(FullEnvelope("unknown_intent", <<>>, 1))}
    \cup {JsonDumps(FullEnvelope("analyze_portfolio", h, 1)) :
            h \in SeqsUpTo(AllocItems, MaxAllocHoldings)}

AllocRequests == [sender : {"planner@xmpp"}, body : AllocBodies]

NextAlloc ==
    \/ ReceiveMsg(AllocRequests, MaxMsgs)
    \/ ReceiveTimeout(MaxMsgs)
    \/ DropMalformed
    \/ DropUnexpected
    \/ RejectIntent
    \/ BeginAnalyze
    \/ LoopEnd
    \/ ItemInvalid
    \/ ItemUnparsable
    \/ IssueLookup
    \/ LookupDone
    \/ LookupFailed
    \/ Reply(FALSE)
    \/ Return

SpecAlloc == Init /\ [][NextAlloc]_vars

\* The requests of the fair specification: every kind of body, with
\* portfolios that make the loop run more than once.
LiveBodies ==
    {[json |-> FALSE, text |-> "not json"],
     JsonDumps(Without(FullEnvelope("analyze_portfolio", <<>>, 1), "task_id")),
     JsonDumps(FullEnvelope("unknown_intent", <<>>, 1))}
    \cup {JsonDumps(FullEnvelope("analyze_portfolio", h, 1)) :
            h \in SeqsUpTo(AllocItems, MaxHoldings)}

LiveRequests == [sender : {"planner@xmpp"}, body : LiveBodies]

\* line 57: receive(timeout=10) returns within the timeout, with a message
\* or with None
Receives == ReceiveMsg(LiveRequests, MaxMsgs) \/ ReceiveTimeout(MaxMsgs)

\* line 102: client.get(..., timeout=5) returns or raises within the timeout
LookupReturns == LookupDone \/ LookupFailed

\* lines 59-175: the code between two awaits runs to the next await, send
\* returns, and the cyclic behaviour calls run again when it has returned
Progress ==
    \/ DropMalformed
    \/ DropUnexpected
    \/ RejectIntent
    \/ BeginAnalyze
    \/ LoopEnd
    \/ ItemInvalid
    \/ ItemUnparsable
    \/ IssueLookup
    \/ Reply(FALSE)
    \/ Return

NextLive == Receives \/ LookupReturns \/ Progress

\* the worker under a scheduler that runs every ready coroutine, with awaits
\* that end; every step moves the program position, so fairness is stated on
\* pc
SpecLive ==
    /\ Init
    /\ [][NextLive]_vars
    /\ WF_pc(Receives)
    /\ WF_pc(LookupReturns)
    /\ WF_pc(Progress)

----------------------------------------------------------------------------
(* What an invocation received and what it sent *)

\* the envelope carried by a message that was sent
EnvelopeOf(m) == JsonLoads(m.body)

\* the invocation received a message and is about to return
Finished == pc = "return" /\ request # NoRequest

\* the request is a JSON object and names an intent other than analyze_portfolio
OtherIntent(body) ==
    /\ JsonDecodes(body)
    /\ IsDict(body)
    /\ Get(JsonLoads(body), "intent") # "analyze_portfolio"

\* the request is a complete analyze_portfolio envelope with a holdings list
Analyzable(body) ==
    /\ JsonDecodes(body)
    /\ Extractable(body)
    /\ Get(JsonLoads(body), "intent") = "analyze_portfolio"
    /\ HoldingsGiven(body)

HoldingsOf(body) == JsonLoads(body).parameters.holdings

\* symbol or allocation is absent or empty
EmptyOrAbsent(h) ==
    \/ ~Has(h, "symbol")
    \/ ~Has(h, "allocation")
    \/ (Has(h, "symbol") /\ h.symbol = "")
    \/ (Has(h, "allocation") /\ h.allocation = <<>>)

\* the lookup returned a document that the code turns into a positive price
Priced(o) ==
    /\ o.kind = "ok"
    /\ Has(o.api_data, "Global Quote")
    /\ Has(o.api_data["Global Quote"], "05. price")
    /\ o.api_data["Global Quote"]["05. price"] \in {<<"1", "0", "0">>, <<"2", "0", "0">>}

\* the lookup returned a document without a price field
PriceAbsent(o) ==
    /\ o.kind = "ok"
    /\ \/ ~Has(o.api_data, "Global Quote")
       \/ /\ Has(o.api_data, "Global Quote")
          /\ ~Has(o.api_data["Global Quote"], "05. price")

\* the GET itself failed: timeout, error status or undecodable response
CallFailed(o) == o.kind \in {"timeout", "status", "malformed"}

----------------------------------------------------------------------------
(* C1 *)

\* C1: an invocation that received a message sends exactly one response if
\* the body decodes as JSON, and none if it does not.
C1_OneResponsePerDecodable ==
    Finished => Len(sent) = (IF JsonDecodes(request) THEN 1 ELSE 0)

----------------------------------------------------------------------------
(* C2 *)

\* C2: every envelope sent has exactly one of result and error; result is
\* there, and not None, exactly when status is "success"; error is there, with
\* a code and a message, exactly when status is "failure".
C2_ResultXorError ==
    \A k \in 1..Len(sent) :
        LET e == EnvelopeOf(sent[k]) IN
        /\ e.status \in {"success", "failure"}
        /\ Has(e, "result") # Has(e, "error")
        /\ Has(e, "result") <=> e.status = "success"
        /\ Has(e, "error") <=> e.status = "failure"
        /\ Has(e, "result") => e.result # None
        /\ Has(e, "error") => e.error # None /\ DOMAIN e.error = {"code", "message"}

\* a success envelope and, in another behaviour, a failure envelope were sent
C2_SuccessSent ==
    /\ Len(sent) = 1
    /\ EnvelopeOf(sent[1]).status = "success"
    /\ Has(EnvelopeOf(sent[1]), "result")
    /\ EnvelopeOf(sent[1]).result.portfolio_summary.num_holdings = 2

----------------------------------------------------------------------------
(* C3 *)

\* C3: a response to an analyze_portfolio request is either a success whose
\* holdings_details has one entry for every input holding, in order, or a
\* failure whose envelope holds no resolved holding: no result, and an error
\* made of a code and a message about the one failing item.
C3_AllOrNothing ==
    \A k \in 1..Len(sent) :
        Analyzable(request) =>
            LET e == EnvelopeOf(sent[k])
                h == HoldingsOf(request)
            IN  IF e.status = "success"
                THEN /\ Len(e.result.holdings_details) = Len(h)
                     /\ e.result.portfolio_summary.num_holdings = Len(h)
                     /\ \A j \in 1..Len(h) :
                            /\ Has(h[j], "symbol")
                            /\ e.result.holdings_details[j].symbol = h[j].symbol
                ELSE /\ ~Has(e, "result")
                     /\ DOMAIN e.error = {"code", "message"}
                     /\ Len(e.error.message) = 2
                     /\ \E j \in 1..Len(h) :
                            \/ /\ e.error.code = "INVALID_PORTFOLIO_ITEM"
                               /\ e.error.message[2] = h[j]
                            \/ /\ e.error.code = "API_FETCH_ERROR"
                               /\ Has(h[j], "symbol")
                               /\ e.error.message[2] = h[j].symbol

\* a request failed at its second holding after the first one was resolved
C3_FailedAfterResolving ==
    /\ Finished
    /\ Analyzable(request)
    /\ Len(sent) = 1
    /\ EnvelopeOf(sent[1]).status = "failure"
    /\ Len(detailed_holdings) = 1
    /\ Len(HoldingsOf(request)) = 2

----------------------------------------------------------------------------
(* C4 and C5 *)

\* the holding passes the check of line 82 and its allocation converts
ItemFine(h) == ~EmptyOrAbsent(h) /\ AllocationParses(h)

\* every holding before position k is fine and its lookup, the j-th of the
\* invocation for holding j, returned a priced document: holding k is the
\* first that can fail
ResolvedBefore(k) ==
    \A j \in 1..(k - 1) :
        /\ ItemFine(HoldingsOf(request)[j])
        /\ j <= Len(lookups)
        /\ lookups[j].pos = j
        /\ Priced(lookups[j].outcome)

\* C4: when the first failing holding of an analyze_portfolio request is one
\* whose symbol or allocation is empty or absent, the one response is a
\* failure INVALID_PORTFOLIO_ITEM whose message carries that item, no lookup
\* was issued for it or for a later holding, no later holding was looked at,
\* and the response holds no result.
C4_InvalidItemAborts ==
    (Finished /\ Analyzable(request)) =>
        \A k \in 1..Len(HoldingsOf(request)) :
            (ResolvedBefore(k) /\ EmptyOrAbsent(HoldingsOf(request)[k])) =>
                /\ Len(sent) = 1
                /\ EnvelopeOf(sent[1]).status = "failure"
                /\ EnvelopeOf(sent[1]).error.code = "INVALID_PORTFOLIO_ITEM"
                /\ EnvelopeOf(sent[1]).error.message[2] = HoldingsOf(request)[k]
                /\ ~Has(EnvelopeOf(sent[1]), "result")
                /\ Len(lookups) = k - 1
                /\ \A j \in 1..Len(lookups) : lookups[j].pos < k
                /\ validated = k

\* the second holding of a request was invalid after the first was resolved
C4_SecondItemInvalid ==
    /\ Finished
    /\ Analyzable(request)
    /\ Len(HoldingsOf(request)) = 2
    /\ ResolvedBefore(2)
    /\ EmptyOrAbsent(HoldingsOf(request)[2])
    /\ Len(sent) = 1

\* C5: when the GET for holding k fails (timeout, error status, undecodable
\* response) after every earlier holding was resolved, the one response is a
\* failure API_FETCH_ERROR whose message carries the symbol of holding k, no
\* lookup was issued for a later holding, and the response holds no result.
C5_LookupFailureAborts ==
    (Finished /\ Analyzable(request)) =>
        \A k \in 1..Len(lookups) :
            CallFailed(lookups[k].outcome) =>
                /\ k = Len(lookups)
                /\ lookups[k].pos = k
                /\ \A j \in 1..(k - 1) : Priced(lookups[j].outcome)
                /\ Len(sent) = 1
                /\ EnvelopeOf(sent[1]).status = "failure"
                /\ EnvelopeOf(sent[1]).error.code = "API_FETCH_ERROR"
                /\ EnvelopeOf(sent[1]).error.message[2] = HoldingsOf(request)[k].symbol
                /\ ~Has(EnvelopeOf(sent[1]), "result")
                /\ validated = k

\* the lookup for the second of two holdings timed out (scenario D)
C5_SecondLookupTimedOut ==
    /\ Finished
    /\ Analyzable(request)
    /\ Len(HoldingsOf(request)) = 2
    /\ Len(lookups) = 2
    /\ lookups[2].outcome.kind = "timeout"
    /\ HoldingsOf(request)[1].symbol # HoldingsOf(request)[2].symbol
    /\ Len(sent) = 1

----------------------------------------------------------------------------
(* C6 *)

----------------------------------------------------------------------------
(* C7 *)

\* no invocation of run is active and nothing of an earlier one is left
AtRest ==
    /\ locals = <<NoMsg, Unbound, UnboundList, Unbound, Unbound, Unbound,
                  UnboundDict, Unbound, UnboundDict, UnboundNum, UnboundList,
                  UnboundNum, Unbound, UnboundNum, UnboundNum>>
    /\ open = 0
    /\ ghost = <<NoRequest, <<>>, <<>>, 0, 0>>

\* C7: the step that handles an undecodable body sends nothing, issues no
\* lookup and leaves the try block normally; run then returns and the worker
\* polls again in the state it polls in when no message ever arrived.
C7_MalformedDropped ==
    [][ /\ (pc = "handle" /\ ~JsonDecodes(msg.body)) =>
              (pc' = "return" /\ sent' = <<>> /\ lookups' = <<>> /\ open' = 0
               /\ validated' = 0)
        /\ (pc = "return" /\ request # NoRequest /\ ~JsonDecodes(request)) =>
              (pc' = "poll" /\ AtRest') ]_vars

\* after a malformed message was dropped, a later request got its success reply
C7_ServedAfterDrop ==
    /\ malformed_logged = 1
    /\ Finished
    /\ Analyzable(request)
    /\ Len(sent) = 1
    /\ EnvelopeOf(sent[1]).status = "success"

----------------------------------------------------------------------------
(* C8 *)

\* C8: every message sent goes to the reply_to of the request this invocation
\* received and its envelope carries that request's task_id, parent_task and
\* intent.
C8_ReplyCorrelated ==
    \A k \in 1..Len(sent) :
        /\ JsonDecodes(request)
        /\ Extractable(request)
        /\ sent[k].to = JsonLoads(request).reply_to
        /\ EnvelopeOf(sent[k]).task_id = JsonLoads(request).task_id
        /\ EnvelopeOf(sent[k]).parent_task = JsonLoads(request).parent_task
        /\ EnvelopeOf(sent[k]).intent = Get(JsonLoads(request), "intent")

\* the second message of a behaviour, from the second requester, was answered
C8_SecondRequesterAnswered ==
    /\ Finished
    /\ clock = 2
    /\ Len(sent) = 1
    /\ sent[1].to = "planner2@xmpp"
    /\ EnvelopeOf(sent[1]).task_id = "task-2"

----------------------------------------------------------------------------
(* C9 *)

\* C9: when the lookup for the holding at position k returns a document
\* without a price, the holding is resolved with current_price 0 and the
\* request is not aborted for it.
C9_AbsentPriceResolved ==
    \A k \in 1..Len(lookups) :
        PriceAbsent(lookups[k].outcome) =>
            /\ status = "success"
            /\ Len(detailed_holdings) >= k
            /\ detailed_holdings[k].current_price = 0

----------------------------------------------------------------------------
(* C10 *)

\* the envelope without its timestamp
Timeless(e) == Without(e, "timestamp")

\* this invocation received the request of the kept reply and its lookups
\* ended as they did then
IsReplay == ref # NoRef /\ request = ref.request /\ lookups = ref.lookups

\* C10: a request that is received again, with every lookup ending as it did
\* the first time, gets the envelope it got the first time except for the
\* timestamp, whatever was received in between.
C10_ReplayIdentical ==
    \A k \in 1..Len(sent) :
        IsReplay => Timeless(EnvelopeOf(sent[k])) = Timeless(ref.envelope)

\* a two-holding request got its success reply again, two receives later
C10_ReplayedAfterAnother ==
    /\ Finished
    /\ IsReplay
    /\ Len(sent) = 1
    /\ EnvelopeOf(sent[1]).status = "success"
    /\ EnvelopeOf(sent[1]).result.portfolio_summary.num_holdings = MaxReplayHoldings
    /\ EnvelopeOf(sent[1]).timestamp = ref.envelope.timestamp + 2

----------------------------------------------------------------------------
(* C11 *)

\* C11: the performative of every message sent is "inform" exactly when the
\* status of its envelope is "success" and "failure" exactly when it is
\* "failure", and its ontology is the one the request template accepts.
C11_PerformativeMatchesStatus ==
    \A k \in 1..Len(sent) :
        /\ sent[k].performative \in {"inform", "failure"}
        /\ sent[k].performative = "inform" <=> EnvelopeOf(sent[k]).status = "success"
        /\ sent[k].performative = "failure" <=> EnvelopeOf(sent[k]).status = "failure"
        /\ sent[k].ontology = Template.ontology
        /\ sent[k].ontology = "finance-task"

\* a failure envelope went out under the performative failure
C11_FailureSent ==
    /\ Len(sent) = 1
    /\ EnvelopeOf(sent[1]).status = "failure"
    /\ sent[1].performative = "failure"

----------------------------------------------------------------------------
(* C12 and C13 *)

RECURSIVE SumPercent(_, _)
\* the sum of the allocation percentages of the first n holdings
SumPercent(h, n) ==
    IF n = 0 THEN 0 ELSE SumPercent(h, n - 1) + AllocationPercent(h[n])

\* the one response of the finished invocation is a success
Succeeded ==
    /\ Finished
    /\ Analyzable(request)
    /\ Len(sent) = 1
    /\ EnvelopeOf(sent[1]).status = "success"

\* C12: when an analyze_portfolio request ends in a success and its
\* allocation percentages add up to 100, total_estimated_value equals the
\* base capital of 100000, whatever the number and the order of the holdings.
C12_TotalIsBaseCapital ==
    (Succeeded /\ SumPercent(HoldingsOf(request), Len(HoldingsOf(request))) = 100) =>
        LET s == EnvelopeOf(sent[1]).result.portfolio_summary IN
        /\ s.total_estimated_value = s.base_capital
        /\ s.total_estimated_value = 100000

\* three holdings of 25%, 50% and 25% ended in a success
C12_ThreeHoldingsSumTo100 ==
    /\ Succeeded
    /\ Len(HoldingsOf(request)) = 3
    /\ AllocationPercent(HoldingsOf(request)[1]) = 25
    /\ AllocationPercent(HoldingsOf(request)[2]) = 50
    /\ SumPercent(HoldingsOf(request), 3) = 100

\* C13: in every success response each resolved holding of allocation a%
\* carries capital_allocated equal to a/100 of 100000, whatever its price,
\* its position and the other holdings.
C13_CapitalProportional ==
    \A k \in 1..Len(sent) :
        (Analyzable(request) /\ EnvelopeOf(sent[k]).status = "success") =>
            LET d == EnvelopeOf(sent[k]).result.holdings_details
                h == HoldingsOf(request)
            IN  \A j \in 1..Len(d) :
                    /\ j <= Len(h)
                    /\ d[j].allocation_percent = AllocationPercent(h[j])
                    /\ d[j].capital_allocated * 100 = AllocationPercent(h[j]) * 100000

\* the same 25% holding resolved at two positions and at two prices, next to
\* a 50% holding
C13_SameHoldingTwoPrices ==
    /\ Succeeded
    /\ Len(HoldingsOf(request)) = 3
    /\ LET d == EnvelopeOf(sent[1]).result.holdings_details IN
        /\ d[1].allocation_percent = 25 /\ d[1].current_price = 100
        /\ d[2].allocation_percent = 50
        /\ d[3].allocation_percent = 25 /\ d[3].current_price = 200
        /\ d[1].capital_allocated = d[3].capital_allocated

----------------------------------------------------------------------------
(* C14, C15 and C17 *)

\* the lookup ended without a resolved holding
Failed(o) == o # Pending /\ ~Priced(o)

\* C14: the holdings are looked up one at a time and in input order: the
\* j-th lookup is for the j-th holding, every lookup but the last one has
\* completed successfully, at most one lookup is in flight, and a success
\* lists the holdings in input order with num_holdings the number of input
\* holdings.
C14_InOrderOneAtATime ==
    /\ lookups # <<>> => Analyzable(request)
    /\ \A j \in 1..Len(lookups) :
        /\ lookups[j].pos = j
        /\ j <= Len(HoldingsOf(request))
        /\ lookups[j].symbol = HoldingsOf(request)[j].symbol
        /\ j < Len(lookups) => Priced(lookups[j].outcome)
        /\ lookups[j].outcome = Pending => (j = Len(lookups) /\ pc = "lookup")
    /\ open <= 1
    /\ \A k \in 1..Len(sent) :
        EnvelopeOf(sent[k]).status = "success" /\ Analyzable(request) =>
            LET r == EnvelopeOf(sent[k]).result
                h == HoldingsOf(request)
            IN  /\ r.portfolio_summary.num_holdings = Len(h)
                /\ Len(r.holdings_details) = Len(h)
                /\ Len(lookups) = Len(h)
                /\ \A j \in 1..Len(h) :
                        r.holdings_details[j].symbol = h[j].symbol

\* the second lookup is in flight after the first one completed
C14_SecondLookupInFlight ==
    /\ pc = "lookup"
    /\ Len(lookups) = 2
    /\ Priced(lookups[1].outcome)
    /\ lookups[2].outcome = Pending
    /\ lookups[1].symbol # lookups[2].symbol
    /\ open = 1

\* C15: no lookup is retried: there is at most one lookup for a holding
\* position, never more lookups than holdings, and a failed lookup is the
\* last one of its request, which then only replies with the failure.
C15_NoRetry ==
    /\ request = NoRequest \/ ~Analyzable(request) => lookups = <<>>
    /\ lookups # <<>> =>
        /\ Len(lookups) <= Len(HoldingsOf(request))
        /\ \A i, j \in 1..Len(lookups) : i # j => lookups[i].pos # lookups[j].pos
        /\ \A j \in 1..Len(lookups) :
            Failed(lookups[j].outcome) =>
                /\ j = Len(lookups)
                /\ pc \in {"reply", "return"}
                /\ status = "failure"

\* the first of two holdings failed its lookup and the second was never
\* looked up
C15_FailedLookupIsLast ==
    /\ Finished
    /\ Analyzable(request)
    /\ Len(HoldingsOf(request)) = 2
    /\ ItemFine(HoldingsOf(request)[2])
    /\ Len(lookups) = 1
    /\ lookups[1].outcome.kind = "status"

\* C17: the client a lookup opens is closed on every way out of the lookup:
\* a client is open only while its GET is awaited, so none is open when the
\* next item is taken, when the response is built or sent, or when the
\* invocation ends.
C17_ClientReleased ==
    /\ open \in {0, 1}
    /\ open = 1 <=> pc = "lookup"
    /\ pc \in {"poll", "handle", "loop", "reply", "return"} => open = 0

\* the second lookup got an undecodable answer and the response is about to
\* be sent with every client closed
C17_ClosedAfterFailure ==
    /\ pc = "reply"
    /\ Len(lookups) = 2
    /\ lookups[2].outcome.kind = "malformed"
    /\ open = 0

----------------------------------------------------------------------------
(* C16 *)

\* C16: one request is handled to completion before the next is accepted: a
\* message is taken only by a poll, with nothing of an earlier request left;
\* while a request is handled the message in hand does not change, and every
\* lookup issued and every response sent belongs to that request.
C16_OneRequestAtATime ==
    /\ [](pc = "poll" => AtRest)
    /\ [][ /\ (msg' # msg /\ msg' # NoMsg) => (pc = "poll" /\ msg = NoMsg)
           /\ (request' # request /\ request' # NoRequest) =>
                  (pc = "poll" /\ request = NoRequest /\ request' = msg'.body)
           /\ pc \in {"handle", "loop", "lookup", "reply"} =>
                  (msg' = msg /\ request' = request /\ request = msg.body)
           /\ (lookups' # lookups /\ pc # "return") =>
                  (request' = request /\ request # NoRequest /\ lookups' # <<>>)
           /\ (sent' # sent /\ pc # "return") =>
                  (request' = request /\ request # NoRequest /\ sent' # <<>>) ]_vars

\* after one message was handled and dropped, the worker awaits a lookup of
\* the next request
C16_SecondRequestLookup ==
    /\ clock = 2
    /\ malformed_logged = 1
    /\ pc = "lookup"
    /\ Len(lookups) = 1
    /\ request = msg.body

----------------------------------------------------------------------------
(* C19 *)

\* the body is a JSON object that lacks one of the envelope fields read by
\* subscript
MissingRequired(body) ==
    /\ JsonDecodes(body)
    /\ IsDict(body)
    /\ \E k \in {"parameters", "task_id", "parent_task", "reply_to"} :
            ~Has(JsonLoads(body), k)

\* C19: a decodable request that lacks parameters, task_id, parent_task or
\* reply_to gets no reply and no lookup, whatever its intent and holdings;
\* the error is caught and logged once, run returns, and the worker polls
\* again with nothing left of the request.
C19_MissingFieldDropped ==
    /\ []((request # NoRequest /\ MissingRequired(request)) =>
            /\ sent = <<>>
            /\ lookups = <<>>
            /\ validated = 0
            /\ open = 0
            /\ pc \in {"handle", "return"}
            /\ unexpected_logged = (IF pc = "return" THEN 1 ELSE 0))
    /\ [][ /\ (pc = "handle" /\ MissingRequired(msg.body)) =>
                  (pc' = "return" /\ unexpected_logged' = 1 /\ sent' = <<>>
                   /\ lookups' = <<>>)
           /\ (pc = "return" /\ request # NoRequest /\ MissingRequired(request)) =>
                  (pc' = "poll" /\ AtRest') ]_vars

\* an unknown-intent request with two holdings and no reply_to was dropped
\* with one log entry
C19_DroppedWithoutReplyTo ==
    /\ Finished
    /\ MissingRequired(request)
    /\ ~Has(JsonLoads(request), "reply_to")
    /\ JsonLoads(request).intent = "unknown_intent"
    /\ Len(JsonLoads(request).parameters.holdings) = 2
    /\ unexpected_logged = 1
    /\ sent = <<>>

----------------------------------------------------------------------------
(* C20 *)

\* symbol and allocation are both non-empty but the allocation, stripped of
\* %, is not a number
Unparsable(h) == ~EmptyOrAbsent(h) /\ ~FloatOk(Strip(h.allocation, "%"))

\* C20: when the first failing holding of an analyze_portfolio request has a
\* non-empty symbol and a non-empty allocation that is not a number, the one
\* response is a failure API_FETCH_ERROR naming that holding's symbol, not
\* INVALID_PORTFOLIO_ITEM, and no lookup was issued for that holding.
C20_UnparsableIsFetchError ==
    (Finished /\ Analyzable(request)) =>
        \A k \in 1..Len(HoldingsOf(request)) :
            (ResolvedBefore(k) /\ Unparsable(HoldingsOf(request)[k])) =>
                /\ Len(sent) = 1
                /\ EnvelopeOf(sent[1]).status = "failure"
                /\ EnvelopeOf(sent[1]).error.code = "API_FETCH_ERROR"
                /\ EnvelopeOf(sent[1]).error.code # "INVALID_PORTFOLIO_ITEM"
                /\ EnvelopeOf(sent[1]).error.message[2] = HoldingsOf(request)[k].symbol
                /\ Len(lookups) = k - 1
                /\ \A j \in 1..Len(lookups) : lookups[j].pos # k

\* the second holding, of another symbol than the first, had the allocation
\* "%" and the request failed after one lookup
C20_SecondItemUnparsable ==
    /\ Finished
    /\ Analyzable(request)
    /\ Len(HoldingsOf(request)) = 2
    /\ ResolvedBefore(2)
    /\ Unparsable(HoldingsOf(request)[2])
    /\ HoldingsOf(request)[2].symbol # HoldingsOf(request)[1].symbol
    /\ Len(lookups) = 1
    /\ Len(sent) = 1

----------------------------------------------------------------------------
(* C18 *)

\* C18: provided every lookup returns or times out, every invocation of run
\* terminates: a received message is eventually answered or dropped, and
\* after a reply, a drop or an idle receive timeout the worker eventually
\* polls again; the idle timeout itself sends nothing and reports no failure.
C18_NeverStuck ==
    /\ (pc = "handle") ~> Finished
    /\ (pc = "return") ~> (pc = "poll")
    /\ (pc # "poll") ~> (pc = "poll")
    /\ [][ (pc = "poll" /\ pc' # "handle") =>
              (request' = NoRequest /\ sent' = <<>>
               /\ lookups' = <<>> /\ unexpected_logged' = 0
               /\ malformed_logged' = malformed_logged) ]_vars

\* an invocation that followed an idle timeout or another invocation has
\* sent its reply and is about to return
C18_RepliedAfterEarlierPoll ==
    /\ pc = "return"
    /\ clock >= 2
    /\ Len(sent) = 1
    /\ Len(lookups) >= 1

====
